---- MODULE Spec2Model ----
(***************************************************************************)
(* Stormlands: multi-model equity scoring.                                 *)
(*                                                                         *)
(*   app/valuation/*.py        four valuation models and the composite     *)
(*   app/services/hybrid_analysis_service.py   the hybrid integrator       *)
(*                                                                         *)
(* Number conventions.  Python floats are modelled as exact rationals:     *)
(*   - a score is an integer number of hundredths of a point (7587 is      *)
(*     75.87), which is what round(x, 2) keeps;                            *)
(*   - a weight is an integer number of 1/200 (60 is 0.30);                *)
(*   - an unrounded quotient is a record [n |-> numerator, d |-> divisor]  *)
(*     with d > 0, compared by cross-multiplication.                       *)
(* Python's None is the value None below.                                  *)
(***************************************************************************)
EXTENDS Integers, Sequences, FiniteSets, TLC

VARIABLES
    pc,             \* position of the request being served
    caller_weights, \* the weights argument given to ComprehensiveValuation
    weights,        \* ComprehensiveValuation.weights
    model_scores,   \* analyze(): the scores returned by the four _run_* calls
    result,         \* analyze(): the returned dictionary
    request,        \* analyze_stock(): its arguments and what _load_stock found
    ai_result,      \* analyze_stock(): the ai_result dictionary (Layer 2)
    hybrid_result,  \* analyze_stock(): what _integrate_results returned
    outcome,        \* how the call ended: "none", "returned", "error", "raised"
    calc,           \* the last calculate() of a single model: input and result
    batch           \* analyze_batch_hybrid(): its arguments, loop position and results

vars == << pc, caller_weights, weights, model_scores, result,
           request, ai_result, hybrid_result, outcome, calc, batch >>

-----------------------------------------------------------------------------
(* Values and arithmetic *)

None == -999999

\* Python truthiness of a number or None: "if v", "v or default", "not v".
Truthy(v) == v # None /\ v # 0

Abs(x) == IF x < 0 THEN 0 - x ELSE x

Min(a, b) == IF a <= b THEN a ELSE b

Max(a, b) == IF a >= b THEN a ELSE b

RECURSIVE GCD(_, _)
GCD(a, b) == IF b = 0 THEN a ELSE GCD(b, a % b)

\* The sum of f over the keys S (sum(d.values()) for a dict d).
RECURSIVE SumFun(_, _)
SumFun(f, S) ==
    IF S = {} THEN 0
    ELSE LET k == CHOOSE x \in S : TRUE
         IN f[k] + SumFun(f, S \ {k})

\* A quotient n/d, d > 0, reduced.
Frac(n, d) ==
    LET g == GCD(Abs(n), d)
    IN [n |-> n \div g, d |-> d \div g]

\* a * b for quotients, cross-reduced first so the products stay small.
FracMul(a, b) ==
    LET g1 == GCD(Abs(a.n), b.d)
        g2 == GCD(Abs(b.n), a.d)
    IN [n |-> (a.n \div g1) * (b.n \div g2), d |-> (a.d \div g2) * (b.d \div g1)]

FracGE(q, k) == q.n >= k * q.d

FracLT(q, k) == q.n < k * q.d

FracGT(q, k) == q.n > k * q.d

FracLE(q, k) == q.n <= k * q.d

\* round(): the nearest integer to n/d (d > 0), ties to the even one.
RoundHalfEven(n, d) ==
    LET q == n \div d          \* floor
        r == n % d             \* 0 <= r < d
    IN IF 2 * r < d THEN q
       ELSE IF 2 * r > d THEN q + 1
       ELSE IF q % 2 = 0 THEN q ELSE q + 1

\* round(x, 2) of a quotient counted in hundredths.
Round2(q) == RoundHalfEven(q.n, q.d)

\* round(x, 1) of a number of hundredths: the result is again in hundredths.
Round1(x) == 10 * RoundHalfEven(x, 10)

\* sorted(items, key=..., reverse=True) and list.sort(key=..., reverse=True),
\* given the key of each item: descending, and items with equal keys keep
\* their order.
StableSortDesc(items, keys) ==
    LET n == Len(items)
        pos(i) == 1 + Cardinality({ j \in 1..n :
                                      keys[j] > keys[i] \/ (keys[j] = keys[i] /\ j < i) })
    IN [p \in 1..n |-> items[CHOOSE i \in 1..n : pos(i) = p]]

-----------------------------------------------------------------------------
(* ComprehensiveValuation *)

\* The four models, in the insertion order of analyze()'s model_scores dict.
Models == << "dcf", "relative", "graham", "magic" >>

ModelSet == {"dcf", "relative", "graham", "magic"}

\* 1.0 as a weight.
WUnit == 2 * 100

DefaultWeights ==
    [m \in ModelSet |->
        CASE m = "dcf" -> 60 [] m = "relative" -> 50 [] m = "graham" -> 50 [] OTHER -> 40]

\* The tolerance 0.01 of the weight check, in weight units.
WTol == 2

\* dict.get(key, default)
Get(d, k, default) == IF k \in DOMAIN d THEN d[k] ELSE default

\* ComprehensiveValuation.__init__: the weights the object holds, as the map w of
\* numerators over the common divisor den (each weight is w[m] / den).
ComprehensiveValuation_init(arg) ==
    LET w0 == IF arg.given /\ DOMAIN arg.map # {} THEN arg.map ELSE DefaultWeights
        weight_sum == SumFun(w0, DOMAIN w0)
    IN IF Abs(weight_sum - WUnit) > WTol
       THEN [w |-> w0, den |-> weight_sum]
       ELSE [w |-> w0, den |-> WUnit]

\* The loop of _calculate_composite_score over model_scores.items(): the
\* numerators of weighted_sum and valid_weight_sum after the first i models.
RECURSIVE CompositeLoop(_, _, _)
CompositeLoop(wts, ms, i) ==
    IF i = 0 THEN [weighted_sum |-> 0, valid_weight_sum |-> 0]
    ELSE LET acc == CompositeLoop(wts, ms, i - 1)
             model == Models[i]
             score == ms[model]
         IN IF score # None
            THEN LET weight == Get(wts.w, model, 0)
                 IN [weighted_sum |-> acc.weighted_sum + score * weight,
                     valid_weight_sum |-> acc.valid_weight_sum + weight]
            ELSE acc

\* A variant of _calculate_composite_score that divides by the weight of all
\* models, so that an absent model counts as a score of 0.
composite_absent_as_zero(wts, ms) ==
    LET acc == CompositeLoop(wts, ms, Len(Models))
    IN IF acc.valid_weight_sum = 0 THEN [n |-> 0, d |-> 1]
       ELSE Frac(acc.weighted_sum, wts.den)

\* _calculate_composite_score: the unrounded composite, a quotient in hundredths.
_calculate_composite_score(wts, ms) ==
    LET acc == CompositeLoop(wts, ms, Len(Models))
    IN IF acc.valid_weight_sum = 0 THEN [n |-> 0, d |-> 1]
       ELSE FracMul(Frac(acc.weighted_sum, acc.valid_weight_sum),
                    Frac(SumFun(wts.w, DOMAIN wts.w), wts.den))

_get_composite_rating(score) ==
    IF FracGE(score, 8500) THEN "strong_buy"
    ELSE IF FracGE(score, 7000) THEN "buy"
    ELSE IF FracGE(score, 5500) THEN "accumulate"
    ELSE IF FracGE(score, 4500) THEN "hold"
    ELSE IF FracGE(score, 3000) THEN "reduce"
    ELSE "sell"

\* _get_investment_recommendation: the band, and whether the "models disagree"
\* note is appended.
_get_investment_recommendation(composite_score, ms) ==
    LET base_rec == IF FracGE(composite_score, 8000) THEN "strong_buy"
                    ELSE IF FracGE(composite_score, 6500) THEN "buy"
                    ELSE IF FracGE(composite_score, 5000) THEN "accumulate_buy"
                    ELSE IF FracGE(composite_score, 4000) THEN "hold"
                    ELSE "sell_review"
        valid == {m \in ModelSet : ms[m] # None}
        disagree == /\ Cardinality(valid) >= 3
                    /\ \E a, b \in valid : ms[a] - ms[b] > 4000
    IN [band |-> base_rec, disagree |-> disagree]

\* The entries the two lists hold when no model qualifies.
NoStrength == "no_clear_strength"

NoWeakness == "no_clear_weakness"

\* A variant that counts an absent model as a score of 0, hence as a weakness.
strengths_weaknesses_absent_as_zero(ms) ==
    LET strengths == SelectSeq(<< "dcf", "relative", "graham", "magic" >>,
                               LAMBDA m : ms[m] # -999999 /\ ms[m] >= 7500)
        weaknesses == SelectSeq(<< "dcf", "relative", "graham", "magic" >>,
                                LAMBDA m : ms[m] < 4000)
    IN [strengths |-> IF strengths = << >> THEN << "no_clear_strength" >> ELSE strengths,
        weaknesses |-> IF weaknesses = << >> THEN << "no_clear_weakness" >> ELSE weaknesses]

\* _analyze_strengths_weaknesses: the two lists, an entry being the model it
\* names (in the order of model_scores), or the placeholder of an empty list.
_analyze_strengths_weaknesses(ms) ==
    LET strengths == SelectSeq(Models, LAMBDA m : ms[m] # None /\ ms[m] >= 7500)
        weaknesses == SelectSeq(Models, LAMBDA m : ms[m] # None /\ ~(ms[m] >= 7500)
                                                    /\ ms[m] < 4000)
    IN [strengths |-> IF strengths = << >> THEN << NoStrength >> ELSE strengths,
        weaknesses |-> IF weaknesses = << >> THEN << NoWeakness >> ELSE weaknesses]

\* analyze(): the result dictionary (interpretation text left out).
analyze(wts, ms) ==
    LET composite_score == _calculate_composite_score(wts, ms)
        sw == _analyze_strengths_weaknesses(ms)
    IN [composite |-> composite_score,
        composite_score |-> Round2(composite_score),
        composite_rating |-> _get_composite_rating(composite_score),
        investment_recommendation |-> _get_investment_recommendation(composite_score, ms),
        model_scores |-> [m \in ModelSet |-> IF Truthy(ms[m]) THEN ms[m] ELSE None],
        weights |-> wts,
        strengths |-> sw.strengths,
        weaknesses |-> sw.weaknesses]

\* The scores the four _run_* calls of analyze() return for a ticker, in the
\* database the multi-ticker requests run against: one stock all four models
\* score, one only DCF scores, and tickers no model can score.
StockScores(ticker) ==
    [m \in ModelSet |->
        CASE ticker = "005930" -> (IF m = "dcf" THEN 8000 ELSE 7000)
          [] ticker = "000660" -> (IF m = "dcf" THEN 10000 ELSE None)
          [] OTHER -> None]

\* ComprehensiveValuation(self.db, ticker, self.weights) inside compare_multiple:
\* the constructor run on weights an object already holds.
ComprehensiveValuation_reinit(wts) ==
    LET weight_sum == SumFun(wts.w, DOMAIN wts.w)
    IN IF Abs(weight_sum * WUnit - wts.den * WUnit) > WTol * wts.den
       THEN [w |-> wts.w, den |-> weight_sum]
       ELSE wts

\* compare_multiple: one analyze() result per ticker, then
\* results.sort(key=lambda x: x.get(sort_by) or 0, reverse=True).
compare_multiple(wts, tickers, sort_by) ==
    LET results == [i \in 1..Len(tickers) |->
                       [ticker |-> tickers[i]]
                       @@ analyze(ComprehensiveValuation_reinit(wts), StockScores(tickers[i]))]
        key(x) == LET v == Get(x, sort_by, None) IN IF Truthy(v) THEN v ELSE 0
    IN StableSortDesc(results, [i \in 1..Len(tickers) |-> key(results[i])])

-----------------------------------------------------------------------------
(* HybridAnalysisService *)

\* A JSON string found where the code expects a number.
JsonString == -999998

IsNumber(v) == v # None /\ v # JsonString

\* _run_traditional_valuation: Layer 1 always builds ComprehensiveValuation with
\* the default weights and keeps these keys of analyze()'s result.
_run_traditional_valuation(ms) ==
    LET res == analyze(ComprehensiveValuation_init([given |-> FALSE, map |-> << >>]), ms)
    IN [composite_score |-> res.composite_score,
        composite_rating |-> res.composite_rating,
        model_scores |-> res.model_scores,
        strengths |-> res.strengths,
        weaknesses |-> res.weaknesses,
        investment_recommendation |-> res.investment_recommendation]

\* _ai_financial_quality_check, from the answer of llama3.generate:
\*   call_raises       generate raised (timeout, HTTP error): the except branch
\*   adjustments_null  "adjustments": null, so .get on None raises: except branch
\*   not_json          _parse_json_response fell back to a dict without adjustments
\*   score_missing     no "score_adjustment" key: the default 0
\*   otherwise         whatever value "score_adjustment" holds
_ai_financial_quality_check(resp) ==
    IF resp.kind \in {"call_raises", "adjustments_null"}
    THEN [score_adjustment |-> 0, error |-> TRUE]
    ELSE IF resp.kind \in {"not_json", "score_missing"}
    THEN [score_adjustment |-> 0, error |-> FALSE]
    ELSE [score_adjustment |-> resp.score_adjustment, error |-> FALSE]

_assess_sentiment_impact(sentiment, trend) ==
    IF sentiment = "negative"
    THEN (IF trend = "weakening" THEN "negative_strong" ELSE "negative_moderate")
    ELSE IF sentiment = "positive"
    THEN (IF trend = "improving" THEN "positive_strong" ELSE "positive_moderate")
    ELSE "neutral"

\* _ai_sentiment_analysis: no opinions on file, analyze_sentiment raised, or the
\* label it returned with the trend and the buy/hold counts of the opinions.
_ai_sentiment_analysis(resp) ==
    IF resp.kind \in {"no_opinions", "call_raises"}
    THEN [sentiment |-> "neutral", impact |-> "none", discrepancy |-> FALSE,
          error |-> resp.kind = "call_raises"]
    ELSE LET consensus_sentiment == IF resp.buy_gt_hold THEN "positive" ELSE "neutral"
         IN [sentiment |-> resp.label,
             impact |-> _assess_sentiment_impact(resp.label, resp.trend),
             discrepancy |-> consensus_sentiment # resp.label,
             error |-> FALSE]

\* _ai_anomaly_detection: fewer than two annual statements, generate raised, or
\* the parsed answer.  patterns_ok is FALSE when "patterns" is null.
_ai_anomaly_detection(resp) ==
    IF resp.kind \in {"no_data", "call_raises"}
    THEN [anomalies_detected |-> FALSE, severity |-> "low", patterns_ok |-> TRUE,
          error |-> resp.kind = "call_raises"]
    ELSE [anomalies_detected |-> resp.anomalies_detected, severity |-> resp.severity,
          patterns_ok |-> resp.patterns_ok, error |-> FALSE]

\* A variant of _get_rating_from_score whose 'accumulate' band starts at 50.
rating_accumulate_from_50(score) ==
    IF score >= 8500 THEN "strong_buy"
    ELSE IF score >= 7000 THEN "buy"
    ELSE IF score >= 5000 THEN "accumulate"
    ELSE IF score >= 4500 THEN "hold"
    ELSE IF score >= 3000 THEN "reduce"
    ELSE "sell"

\* HybridAnalysisService._get_rating_from_score, on a number of hundredths.
_get_rating_from_score(score) ==
    IF score >= 8500 THEN "strong_buy"
    ELSE IF score >= 7000 THEN "buy"
    ELSE IF score >= 5500 THEN "accumulate"
    ELSE IF score >= 4500 THEN "hold"
    ELSE IF score >= 3000 THEN "reduce"
    ELSE "sell"

RECURSIVE SumAbs(_)
SumAbs(adjustments) ==
    IF adjustments = << >> THEN 0
    ELSE Abs(Head(adjustments).adjustment) + SumAbs(Tail(adjustments))

\* A variant of _calculate_confidence whose 'low' threshold is 16 instead of 15.
confidence_low_above_16(adjustments, confidence_factors) ==
    LET total_adjustment == SumAbs(adjustments)
        negative_count == Len(confidence_factors)
    IN IF total_adjustment > 1600 \/ negative_count >= 3 THEN "low"
       ELSE IF total_adjustment > 800 \/ negative_count >= 2 THEN "medium"
       ELSE "high"

_calculate_confidence(adjustments, confidence_factors) ==
    LET total_adjustment == SumAbs(adjustments)
        negative_count == Len(confidence_factors)
    IN IF total_adjustment > 1500 \/ negative_count >= 3 THEN "low"
       ELSE IF total_adjustment > 800 \/ negative_count >= 2 THEN "medium"
       ELSE "high"

\* Step 1 of _integrate_results on the running state st: the quality delta.
\* "adjusted_score += score_adj" raises TypeError unless score_adj is a number.
IntegrateQuality(st, ai) ==
    IF "financial_quality_check" \notin DOMAIN ai THEN st
    ELSE LET score_adj == ai["financial_quality_check"].score_adjustment
         IN IF score_adj = 0 THEN st
            ELSE IF ~IsNumber(score_adj) THEN [st EXCEPT !.raised = TRUE]
            ELSE [st EXCEPT
                    !.adjusted_score = @ + score_adj,
                    !.adjustments = Append(@, [type |-> "financial_quality",
                                               adjustment |-> score_adj]),
                    !.confidence_factors =
                        IF Abs(score_adj) > 1000
                        THEN Append(@, "large_quality_adjustment") ELSE @]

\* A sentiment delta that grants the positive deltas whatever the base score.
sentiment_delta_ignoring_base(impact, base_score) ==
    IF impact \in {"negative_strong", "negative_moderate"}
    THEN (IF impact = "negative_strong" THEN 0 - 800 ELSE 0 - 400)
    ELSE IF impact \in {"positive_strong", "positive_moderate"}
    THEN (IF impact = "positive_strong" THEN 500 ELSE 200)
    ELSE 0

\* A sentiment delta whose negative deltas, too, depend on the base score.
sentiment_delta_negative_guarded(impact, base_score) ==
    IF impact \in {"negative_strong", "negative_moderate"} /\ base_score > 6999
    THEN (IF impact = "negative_strong" THEN 0 - 800 ELSE 0 - 400)
    ELSE IF impact \in {"positive_strong", "positive_moderate"} /\ base_score < 7000
    THEN (IF impact = "positive_strong" THEN 500 ELSE 200)
    ELSE 0

SentimentDelta(impact, base_score) ==
    IF impact \in {"negative_strong", "negative_moderate"}
    THEN (IF impact = "negative_strong" THEN 0 - 800 ELSE 0 - 400)
    ELSE IF impact \in {"positive_strong", "positive_moderate"} /\ base_score < 7000
    THEN (IF impact = "positive_strong" THEN 500 ELSE 200)
    ELSE 0

\* A variant of step 2 whose positive delta looks at the running sum instead of
\* the base score.
IntegrateSentimentOnRunningSum(st, ai) ==
    IF "sentiment_analysis" \notin DOMAIN ai THEN st
    ELSE LET sentiment == ai["sentiment_analysis"]
             sentiment_adj == SentimentDelta(sentiment.impact, st.adjusted_score)
             st1 == IF sentiment_adj = 0 THEN st
                    ELSE [st EXCEPT
                            !.adjusted_score = @ + sentiment_adj,
                            !.adjustments = Append(@,
                                [type |-> IF sentiment_adj < 0 THEN "negative_sentiment"
                                          ELSE "positive_sentiment",
                                 adjustment |-> sentiment_adj])]
         IN IF sentiment.discrepancy
            THEN [st1 EXCEPT !.confidence_factors = Append(@, "sentiment_discrepancy")]
            ELSE st1

\* Step 2: the sentiment delta.
IntegrateSentiment(st, ai) ==
    IF "sentiment_analysis" \notin DOMAIN ai THEN st
    ELSE LET sentiment == ai["sentiment_analysis"]
             sentiment_adj == SentimentDelta(sentiment.impact, st.base_score)
             st1 == IF sentiment_adj = 0 THEN st
                    ELSE [st EXCEPT
                            !.adjusted_score = @ + sentiment_adj,
                            !.adjustments = Append(@,
                                [type |-> IF sentiment_adj < 0 THEN "negative_sentiment"
                                          ELSE "positive_sentiment",
                                 adjustment |-> sentiment_adj])]
         IN IF sentiment.discrepancy
            THEN [st1 EXCEPT !.confidence_factors = Append(@, "sentiment_discrepancy")]
            ELSE st1

AnomalyDelta(severity) ==
    IF severity = "high" THEN 0 - 1000
    ELSE IF severity = "medium" THEN 0 - 500
    ELSE 0 - 200

\* A variant of step 3 that clamps the running sum before adding its delta.
IntegrateAnomalyClampFirst(st, ai) ==
    IF "anomaly_detection" \notin DOMAIN ai THEN st
    ELSE LET anomaly == ai["anomaly_detection"]
         IN IF ~anomaly.anomalies_detected THEN st
            ELSE IF ~anomaly.patterns_ok THEN [st EXCEPT !.raised = TRUE]
            ELSE [st EXCEPT
                    !.adjusted_score = Max(0, Min(10000, @)) + AnomalyDelta(anomaly.severity),
                    !.adjustments = Append(@, [type |-> "anomaly_detected",
                                               adjustment |-> AnomalyDelta(anomaly.severity)]),
                    !.confidence_factors = Append(@, "anomaly")]

\* Step 3: the anomaly delta.  ', '.join(patterns) raises TypeError on null.
IntegrateAnomaly(st, ai) ==
    IF "anomaly_detection" \notin DOMAIN ai THEN st
    ELSE LET anomaly == ai["anomaly_detection"]
         IN IF ~anomaly.anomalies_detected THEN st
            ELSE IF ~anomaly.patterns_ok THEN [st EXCEPT !.raised = TRUE]
            ELSE [st EXCEPT
                    !.adjusted_score = @ + AnomalyDelta(anomaly.severity),
                    !.adjustments = Append(@, [type |-> "anomaly_detected",
                                               adjustment |-> AnomalyDelta(anomaly.severity)]),
                    !.confidence_factors = Append(@, "anomaly")]

\* _integrate_results.  A TypeError in a step ends the call: raised is TRUE and
\* nothing else of the record is a result.
_integrate_results(traditional, ai) ==
    LET base_score == traditional.composite_score
        st0 == [raised |-> FALSE, base_score |-> base_score, adjusted_score |-> base_score,
                adjustments |-> << >>, confidence_factors |-> << >>]
        st1 == IntegrateQuality(st0, ai)
        st2 == IF st1.raised THEN st1 ELSE IntegrateSentiment(st1, ai)
        st3 == IF st2.raised THEN st2 ELSE IntegrateAnomaly(st2, ai)
        adjusted_score == Max(0, Min(10000, st3.adjusted_score))
    IN IF st3.raised THEN [raised |-> TRUE]
       ELSE [raised |-> FALSE,
             base_score |-> Round1(base_score),
             adjusted_score |-> Round1(adjusted_score),
             score_change |-> Round1(adjusted_score - base_score),
             final_rating |-> _get_rating_from_score(adjusted_score),
             confidence_level |-> _calculate_confidence(st3.adjustments, st3.confidence_factors),
             adjustments |-> st3.adjustments,
             adjustment_count |-> Len(st3.adjustments)]

-----------------------------------------------------------------------------
(* Requests served by HybridAnalysisService.analyze_stock: specification Spec *)

\* A dictionary or result that has not been produced yet.
Unset == [unset |-> TRUE]

NoScores == [m \in ModelSet |-> None]

NoWeightsArg == [given |-> FALSE, map |-> << >>]

\* Scores the four _run_* calls hand to analyze() under a hybrid request.
HybridScores ==
    { [m \in ModelSet |->
          CASE m = "dcf" -> d [] m = "relative" -> r [] m = "graham" -> g [] OTHER -> k] :
      d \in {None, 6999, 10000}, r \in {None, 7000}, g \in {None, 7000}, k \in {None, 7000} }

\* Answers of the language model to the financial-quality prompt.
QualityDeltas == {0 - 2000, 0 - 1600, 0 - 300, 300, 801, 1200}

QualityResponses ==
    { [kind |-> k, score_adjustment |-> None] :
        k \in {"call_raises", "adjustments_null", "not_json", "score_missing", "score_null"} }
    \cup { [kind |-> "score_string", score_adjustment |-> JsonString] }
    \cup { [kind |-> "score", score_adjustment |-> v] : v \in QualityDeltas }

SentimentResponses ==
    { [kind |-> k, label |-> "neutral", trend |-> "stable", buy_gt_hold |-> FALSE] :
        k \in {"no_opinions", "call_raises"} }
    \cup { [kind |-> "label", label |-> l, trend |-> t, buy_gt_hold |-> b] :
             l \in {"positive", "neutral", "negative"},
             t \in {"improving", "stable", "weakening"},
             b \in BOOLEAN }

AnomalyResponses ==
    { [kind |-> k, anomalies_detected |-> FALSE, severity |-> "low", patterns_ok |-> TRUE] :
        k \in {"no_data", "call_raises"} }
    \cup { [kind |-> "parsed", anomalies_detected |-> FALSE, severity |-> "low",
            patterns_ok |-> TRUE] }
    \cup { [kind |-> "parsed", anomalies_detected |-> TRUE, severity |-> sv, patterns_ok |-> ok] :
             sv \in {"high", "medium", "low"}, ok \in BOOLEAN }

Init ==
    /\ pc = "idle"
    /\ caller_weights = NoWeightsArg
    /\ weights = ComprehensiveValuation_init(NoWeightsArg)
    /\ model_scores = NoScores
    /\ result = Unset
    /\ request = Unset
    /\ ai_result = << >>
    /\ hybrid_result = Unset
    /\ outcome = "none"
    /\ calc = Unset
    /\ batch = Unset

\* analyze_stock up to the end of Layer 1, for a ticker _load_stock does not know.
StockNotFound ==
    /\ pc = "idle"
    /\ \E ai \in BOOLEAN, snt \in BOOLEAN :
          request' = [found |-> FALSE, include_ai_adjustment |-> ai, include_sentiment |-> snt]
    /\ outcome' = "error"
    /\ pc' = "done"
    /\ UNCHANGED << caller_weights, weights, model_scores, result, ai_result,
                    hybrid_result, calc, batch >>

\* analyze_stock up to the end of Layer 1: the four models give the scores ms.
Layer1(ms) ==
    /\ pc = "idle"
    /\ \E ai \in BOOLEAN, snt \in BOOLEAN :
          /\ request' = [found |-> TRUE, include_ai_adjustment |-> ai,
                         include_sentiment |-> snt]
          /\ pc' = IF ai THEN "quality" ELSE "integrate"
    /\ model_scores' = ms
    /\ result' = _run_traditional_valuation(ms)
    /\ ai_result' = << >>
    /\ UNCHANGED << caller_weights, weights, hybrid_result, outcome, calc, batch >>

QualityCheck(resp) ==
    /\ pc = "quality"
    /\ ai_result' = ai_result @@ ("financial_quality_check" :> _ai_financial_quality_check(resp))
    /\ pc' = IF request.include_sentiment THEN "sentiment" ELSE "anomaly"
    /\ UNCHANGED << caller_weights, weights, model_scores, result, request,
                    hybrid_result, outcome, calc, batch >>

SentimentAnalysis(resp) ==
    /\ pc = "sentiment"
    /\ ai_result' = ai_result @@ ("sentiment_analysis" :> _ai_sentiment_analysis(resp))
    /\ pc' = "anomaly"
    /\ UNCHANGED << caller_weights, weights, model_scores, result, request,
                    hybrid_result, outcome, calc, batch >>

AnomalyDetection(resp) ==
    /\ pc = "anomaly"
    /\ ai_result' = ai_result @@ ("anomaly_detection" :> _ai_anomaly_detection(resp))
    /\ pc' = "integrate"
    /\ UNCHANGED << caller_weights, weights, model_scores, result, request,
                    hybrid_result, outcome, calc, batch >>

\* Layer 3 and the return: _integrate_results runs outside any try block, so a
\* TypeError in it leaves analyze_stock as an exception.
Integrate ==
    /\ pc = "integrate"
    /\ hybrid_result' = _integrate_results(result, ai_result)
    /\ outcome' = IF hybrid_result'.raised THEN "raised" ELSE "returned"
    /\ pc' = "done"
    /\ UNCHANGED << caller_weights, weights, model_scores, result, request,
                    ai_result, calc, batch >>

Next ==
    \/ StockNotFound
    \/ \E ms \in HybridScores : Layer1(ms)
    \/ \E resp \in QualityResponses : QualityCheck(resp)
    \/ \E resp \in SentimentResponses : SentimentAnalysis(resp)
    \/ \E resp \in AnomalyResponses : AnomalyDetection(resp)
    \/ Integrate

Spec == Init /\ [][Next]_vars

-----------------------------------------------------------------------------
(* ComprehensiveValuation built with caller weights: specification SpecComposite *)

WeightValues == {50, 51, 100}

\* The weights argument: not given, or a map over some of the models whose sum
\* is not on the edge of the 0.01 tolerance.
WeightArgs ==
    {NoWeightsArg} \cup
    { [given |-> TRUE, map |-> f] :
        f \in { g \in UNION { [S -> WeightValues] : S \in SUBSET ModelSet } :
                  Abs(SumFun(g, DOMAIN g) - WUnit) # WTol } }

CompositeScores ==
    { [m \in ModelSet |->
          CASE m = "dcf" -> d [] m = "relative" -> r [] m = "graham" -> g [] OTHER -> k] :
      d \in {None, 0, 6999, 8000, 10000}, r \in {None, 4000, 7000, 10000},
      g \in {None, 3999, 7000, 7500}, k \in {None, 7000, 7700, 10000} }

InitComposite ==
    /\ pc = "new"
    /\ caller_weights = NoWeightsArg
    /\ weights = Unset
    /\ model_scores = NoScores
    /\ result = Unset
    /\ request = Unset
    /\ ai_result = << >>
    /\ hybrid_result = Unset
    /\ outcome = "none"
    /\ calc = Unset
    /\ batch = Unset

Construct(arg) ==
    /\ pc = "new"
    /\ caller_weights' = arg
    /\ weights' = ComprehensiveValuation_init(arg)
    /\ pc' = "constructed"
    /\ UNCHANGED << model_scores, result, request, ai_result, hybrid_result, outcome, calc, batch >>

Analyze(ms) ==
    /\ pc = "constructed"
    /\ model_scores' = ms
    /\ result' = analyze(weights, ms)
    /\ outcome' = "returned"
    /\ pc' = "analyzed"
    /\ UNCHANGED << caller_weights, weights, request, ai_result, hybrid_result, calc, batch >>

\* Ticker lists and sort fields given to compare_multiple.
CompareTickers == {"005930", "000660", "035720"}

CompareLists ==
    { << a >> : a \in CompareTickers }
    \cup { << a, b >> : a \in CompareTickers, b \in CompareTickers }

SortFields == {"composite_score", "dcf"}

CompareMultiple(tickers, sort_by) ==
    /\ pc = "constructed"
    /\ request' = [tickers |-> tickers, sort_by |-> sort_by]
    /\ result' = compare_multiple(weights, tickers, sort_by)
    /\ outcome' = "returned"
    /\ pc' = "compared"
    /\ UNCHANGED << caller_weights, weights, model_scores, ai_result, hybrid_result,
                    calc, batch >>

NextComposite ==
    \/ \E arg \in WeightArgs : Construct(arg)
    \/ \E ms \in CompositeScores : Analyze(ms)
    \/ \E tickers \in CompareLists, sort_by \in SortFields : CompareMultiple(tickers, sort_by)

SpecComposite == InitComposite /\ [][NextComposite]_vars

-----------------------------------------------------------------------------
(* The valuation models: BaseValuation *)

\* An absent (None) quotient.
NoneQ == [n |-> 0, d |-> 0]

IsNoneQ(q) == q.d = 0

\* "if q" for an optional quotient: neither None nor 0.
TruthyQ(q) == q.d # 0 /\ q.n # 0

\* int(): truncation of n/d (d > 0) toward zero.
Trunc(n, d) == IF n >= 0 THEN n \div d ELSE 0 - ((0 - n) \div d)

\* Clamp of a quotient: max(lo, min(hi, q)).
ClampQ(q, lo, hi) ==
    IF FracGT(q, hi) THEN [n |-> hi, d |-> 1]
    ELSE IF FracLT(q, lo) THEN [n |-> lo, d |-> 1]
    ELSE q

\* The latest annual statement with every field NULL.  Amounts are in won.
EmptyFS ==
    [eps |-> None, bps |-> None, bsop_prti |-> None, total_cptl |-> None,
     thtr_ntin |-> None, total_aset |-> None, total_lblt |-> None,
     lblt_rate |-> None, cras |-> None, flow_lblt |-> None, roe_val |-> None]

\* What a model object loaded: the stock row, the latest annual statement, the
\* latest closing price (None when there is no price row), the net incomes of
\* the annual statements (newest first), the dividend rows, the sector averages.
EmptyData ==
    [has_stock |-> TRUE, has_financial |-> TRUE, fs |-> EmptyFS, price |-> None,
     history |-> << >>, dividend_count |-> 0,
     stock_count |-> 0, avg_per |-> None, avg_pbr |-> None]

validate_data(inp) == inp.has_stock /\ inp.has_financial /\ inp.price # None

get_error_result == [score |-> None, rating |-> "N/A", error |-> TRUE, raised |-> FALSE]

\* A normalisation whose lowest band gives 20 points instead of 40.
normalize_score_low_band_20(value, excellent, good, fair, inverse) ==
    LET le(q, t) == q.n * t.d <= t.n * q.d
        ge(q, t) == q.n * t.d >= t.n * q.d
    IN IF value.d = 0 THEN 50
       ELSE IF inverse
       THEN (IF le(value, excellent) THEN 100
             ELSE IF le(value, good) THEN 80
             ELSE IF le(value, fair) THEN 60
             ELSE 20)
       ELSE (IF ge(value, excellent) THEN 100
             ELSE IF ge(value, good) THEN 80
             ELSE IF ge(value, fair) THEN 60
             ELSE 20)

\* normalize_score(value, ...) on a quotient, with the thresholds as quotients.
normalize_score(value, excellent, good, fair, inverse) ==
    LET le(q, t) == q.n * t.d <= t.n * q.d
        ge(q, t) == q.n * t.d >= t.n * q.d
    IN IF IsNoneQ(value) THEN 50
       ELSE IF inverse
       THEN (IF le(value, excellent) THEN 100
             ELSE IF le(value, good) THEN 80
             ELSE IF le(value, fair) THEN 60
             ELSE 40)
       ELSE (IF ge(value, excellent) THEN 100
             ELSE IF ge(value, good) THEN 80
             ELSE IF ge(value, fair) THEN 60
             ELSE 40)

\* BaseValuation.get_rating_from_score, on a quotient of points.
get_rating_from_score(score) ==
    IF FracGE(score, 85) THEN "excellent"
    ELSE IF FracGE(score, 70) THEN "good"
    ELSE IF FracGE(score, 50) THEN "fair"
    ELSE IF FracGE(score, 30) THEN "poor"
    ELSE "very_poor"

\* round(score, 2) of a quotient of points, in hundredths.
RoundScore(q) == RoundHalfEven(100 * q.n, q.d)

-----------------------------------------------------------------------------
(* DCFValuation *)

\* Shares = total_cptl / bps, else thtr_ntin / eps, else None.
_estimate_shares_outstanding(inp) ==
    LET fs == inp.fs
    IN IF ~inp.has_financial THEN NoneQ
       ELSE IF Truthy(fs.bps) /\ fs.bps > 0 /\ Truthy(fs.total_cptl)
       THEN [n |-> fs.total_cptl, d |-> fs.bps]
       ELSE IF Truthy(fs.eps) /\ fs.eps > 0 /\ Truthy(fs.thtr_ntin)
       THEN [n |-> fs.thtr_ntin, d |-> fs.eps]
       ELSE NoneQ

\* _calculate_fcf: the "fcf" entry, or None when there is no result.
_calculate_fcf(inp, p) ==
    IF ~inp.has_financial \/ ~Truthy(inp.fs.bsop_prti) THEN None
    ELSE Trunc(inp.fs.bsop_prti * (100 - p.tax_rate), 100)

\* A terminal value that leaves the growth factor (1 + g/100) out.
intrinsic_value_without_growth(inp, p, fcf) ==
    IF p.wacc <= p.terminal_growth THEN NoneQ
    ELSE LET shares == _estimate_shares_outstanding(inp)
         IN IF ~TruthyQ(shares) \/ shares.n <= 0 THEN NoneQ
            ELSE Frac(fcf * 100 * shares.d, (p.wacc - p.terminal_growth) * shares.n)

\* _calculate_intrinsic_value: fcf * (1 + g/100) / ((wacc - g)/100) / shares.
_calculate_intrinsic_value(inp, p, fcf) ==
    IF p.wacc <= p.terminal_growth THEN NoneQ
    ELSE LET shares == _estimate_shares_outstanding(inp)
         IN IF ~TruthyQ(shares) \/ shares.n <= 0 THEN NoneQ
            ELSE Frac(fcf * (100 + p.terminal_growth) * shares.d,
                      (p.wacc - p.terminal_growth) * shares.n)

\* upside_pct is a quotient of percent.
_get_dcf_rating(upside_pct) ==
    IF FracGE(upside_pct, 50) THEN "strong_buy"
    ELSE IF FracGE(upside_pct, 30) THEN "buy"
    ELSE IF FracGE(upside_pct, 10) THEN "undervalued"
    ELSE IF FracGE(upside_pct, 0 - 10) THEN "fair"
    ELSE IF FracGE(upside_pct, 0 - 30) THEN "overvalued"
    ELSE "strong_sell"

\* DCFValuation.calculate with the parameters p (wacc, terminal_growth and
\* tax_rate in percent).
DCF_calculate(inp, p) ==
    IF ~validate_data(inp) THEN get_error_result
    ELSE LET fcf == _calculate_fcf(inp, p)
         IN IF fcf = None \/ fcf <= 0 THEN get_error_result
            ELSE LET intrinsic_value == _calculate_intrinsic_value(inp, p, fcf)
                 IN IF ~TruthyQ(intrinsic_value) \/ ~Truthy(inp.price) THEN get_error_result
                    ELSE LET upside_pct == Frac(100 * (intrinsic_value.n - inp.price * intrinsic_value.d),
                                                inp.price * intrinsic_value.d)
                             score == ClampQ([n |-> upside_pct.n + 50 * upside_pct.d,
                                              d |-> upside_pct.d], 0, 100)
                         IN [score |-> RoundScore(score),
                             rating |-> _get_dcf_rating(upside_pct),
                             error |-> FALSE, raised |-> FALSE,
                             intrinsic_value |-> intrinsic_value,
                             upside_pct |-> upside_pct]

-----------------------------------------------------------------------------
(* GrahamValuation *)

\* The integer root of a perfect square (the inputs below make 22.5*EPS*BPS one).
Sqrt(x) == CHOOSE r \in 0..x : r * r <= x /\ (r + 1) * (r + 1) > x

\* _calculate_graham_number: sqrt(22.5 * eps * bps), None unless both are positive.
_calculate_graham_number(inp) ==
    LET eps == inp.fs.eps
        bps == inp.fs.bps
    IN IF ~inp.has_financial THEN None
       ELSE IF ~Truthy(eps) \/ ~Truthy(bps) \/ eps <= 0 \/ bps <= 0 THEN None
       ELSE Sqrt((45 * eps * bps) \div 2)

_check_earnings_growth(inp) ==
    LET history == inp.history
    IN IF Len(history) < 2 THEN FALSE
       ELSE LET latest == history[1]
                oldest == history[Len(history)]
            IN IF ~Truthy(latest) \/ ~Truthy(oldest) \/ oldest <= 0 THEN FALSE
               ELSE latest > oldest

_check_dividend_history(inp) == inp.dividend_count >= 3

_check_graham_criteria(inp) ==
    LET fs == inp.fs
    IN IF ~inp.has_financial
       THEN [per_ok |-> FALSE, pbr_ok |-> FALSE, debt_ok |-> FALSE,
             current_ratio_ok |-> FALSE, earnings_growth_ok |-> FALSE,
             dividend_ok |-> FALSE, roe_ok |-> FALSE]
       ELSE [per_ok |-> Truthy(fs.eps) /\ fs.eps > 0 /\ Truthy(inp.price)
                          /\ inp.price < 15 * fs.eps,
             pbr_ok |-> Truthy(fs.bps) /\ fs.bps > 0 /\ Truthy(inp.price)
                          /\ 2 * inp.price < 3 * fs.bps,
             debt_ok |-> Truthy(fs.lblt_rate) /\ fs.lblt_rate < 200,
             current_ratio_ok |-> Truthy(fs.cras) /\ Truthy(fs.flow_lblt) /\ fs.flow_lblt > 0
                                    /\ fs.cras * 100 > 200 * fs.flow_lblt,
             earnings_growth_ok |-> _check_earnings_growth(inp),
             dividend_ok |-> _check_dividend_history(inp),
             roe_ok |-> Truthy(fs.roe_val) /\ fs.roe_val > 15]

\* sum(criteria.values())
CriteriaPassed(criteria) == Cardinality({k \in DOMAIN criteria : criteria[k]})

\* margin_of_safety is an optional quotient of percent.
_get_graham_rating(criteria_passed, margin_of_safety) ==
    IF criteria_passed >= 6
    THEN (IF TruthyQ(margin_of_safety) /\ FracGT(margin_of_safety, 20)
          THEN "excellent" ELSE "good")
    ELSE IF criteria_passed >= 4
    THEN (IF TruthyQ(margin_of_safety) /\ FracGT(margin_of_safety, 10)
          THEN "good" ELSE "fair")
    ELSE IF criteria_passed >= 2 THEN "fair"
    ELSE "poor"

Graham_calculate(inp) ==
    IF ~validate_data(inp) THEN get_error_result
    ELSE LET graham_number == _calculate_graham_number(inp)
             margin_of_safety ==
                 IF Truthy(graham_number) /\ Truthy(inp.price)
                 THEN Frac(100 * (graham_number - inp.price), graham_number)
                 ELSE NoneQ
             criteria == _check_graham_criteria(inp)
             criteria_passed == CriteriaPassed(criteria)
             criteria_score == [n |-> criteria_passed * 70, d |-> 7]
             safety_score ==
                 IF TruthyQ(margin_of_safety)
                 THEN ClampQ(Frac((margin_of_safety.n + 30 * margin_of_safety.d) * 30,
                                  60 * margin_of_safety.d), 0, 30)
                 ELSE [n |-> 0, d |-> 1]
             score == Frac(criteria_score.n * safety_score.d + safety_score.n * criteria_score.d,
                           criteria_score.d * safety_score.d)
         IN [score |-> RoundScore(score),
             rating |-> _get_graham_rating(criteria_passed, margin_of_safety),
             error |-> FALSE, raised |-> FALSE,
             graham_number |-> graham_number,
             margin_of_safety |-> margin_of_safety,
             criteria_passed |-> criteria_passed,
             criteria_details |-> criteria]

-----------------------------------------------------------------------------
(* MagicFormula *)

_get_invested_capital(inp) ==
    IF ~inp.has_financial THEN None
    ELSE IF ~Truthy(inp.fs.total_aset) \/ ~Truthy(inp.fs.total_lblt) THEN None
    ELSE inp.fs.total_aset - inp.fs.total_lblt

\* ROIC in percent, as an optional quotient.
_calculate_roic(inp) ==
    LET ebit == inp.fs.bsop_prti
        invested_capital == _get_invested_capital(inp)
    IN IF ~inp.has_financial THEN NoneQ
       ELSE IF ~Truthy(ebit) \/ ebit <= 0 THEN NoneQ
       ELSE IF ~Truthy(invested_capital) \/ invested_capital <= 0 THEN NoneQ
       ELSE Frac(100 * ebit, invested_capital)

\* int(price * shares), shares estimated as in DCF.
_estimate_market_cap(inp) ==
    LET fs == inp.fs
    IN IF ~inp.has_financial \/ ~Truthy(inp.price) THEN None
       ELSE IF Truthy(fs.bps) /\ fs.bps > 0 /\ Truthy(fs.total_cptl)
       THEN Trunc(inp.price * fs.total_cptl, fs.bps)
       ELSE IF Truthy(fs.eps) /\ fs.eps > 0 /\ Truthy(fs.thtr_ntin)
       THEN Trunc(inp.price * fs.thtr_ntin, fs.eps)
       ELSE None

\* Earnings yield in percent, as an optional quotient.
_calculate_earnings_yield(inp) ==
    LET ebit == inp.fs.bsop_prti
        market_cap == _estimate_market_cap(inp)
    IN IF ~inp.has_financial THEN NoneQ
       ELSE IF ~Truthy(ebit) \/ ebit <= 0 THEN NoneQ
       ELSE IF ~Truthy(market_cap) \/ market_cap <= 0 THEN NoneQ
       ELSE Frac(100 * ebit, market_cap)

Whole(k) == [n |-> k, d |-> 1]

\* MagicFormula._calculate_score: half of each normalised score.
Magic_calculate_score(roic, earnings_yield) ==
    LET roic_score == normalize_score(roic, Whole(20), Whole(10), Whole(5), FALSE)
        ey_score == normalize_score(earnings_yield, Whole(10), Whole(5), Whole(2), FALSE)
    IN Frac(roic_score + ey_score, 2)

Magic_calculate(inp) ==
    IF ~validate_data(inp) THEN get_error_result
    ELSE LET roic == _calculate_roic(inp)
             earnings_yield == _calculate_earnings_yield(inp)
         IN IF IsNoneQ(roic) \/ IsNoneQ(earnings_yield) THEN get_error_result
            ELSE LET score == Magic_calculate_score(roic, earnings_yield)
                 IN [score |-> RoundScore(score),
                     rating |-> get_rating_from_score(score),
                     error |-> FALSE, raised |-> FALSE,
                     roic |-> roic, earnings_yield |-> earnings_yield]

-----------------------------------------------------------------------------
(* RelativeValuation *)

\* The stock's PER and PBR (optional quotients), or ok = FALSE for None.
_calculate_stock_metrics(inp) ==
    IF ~inp.has_financial \/ ~Truthy(inp.price)
    THEN [ok |-> FALSE, per |-> NoneQ, pbr |-> NoneQ]
    ELSE [ok |-> TRUE,
          per |-> IF Truthy(inp.fs.eps) /\ inp.fs.eps > 0
                  THEN Frac(inp.price, inp.fs.eps) ELSE NoneQ,
          pbr |-> IF Truthy(inp.fs.bps) /\ inp.fs.bps > 0
                  THEN Frac(inp.price, inp.fs.bps) ELSE NoneQ]

\* The sector averages of the peer query, or ok = FALSE when it found no stock.
_calculate_sector_metrics(inp) ==
    IF inp.stock_count = 0 THEN [ok |-> FALSE, avg_per |-> None, avg_pbr |-> None]
    ELSE [ok |-> TRUE,
          avg_per |-> IF Truthy(inp.avg_per) THEN inp.avg_per ELSE None,
          avg_pbr |-> IF Truthy(inp.avg_pbr) THEN inp.avg_pbr ELSE None]

_calculate_relative_multiples(stock_metrics, sector_metrics) ==
    [per_to_sector |->
        IF TruthyQ(stock_metrics.per) /\ Truthy(sector_metrics.avg_per)
        THEN Frac(stock_metrics.per.n, stock_metrics.per.d * sector_metrics.avg_per)
        ELSE NoneQ,
     pbr_to_sector |->
        IF TruthyQ(stock_metrics.pbr) /\ Truthy(sector_metrics.avg_pbr)
        THEN Frac(stock_metrics.pbr.n, stock_metrics.pbr.d * sector_metrics.avg_pbr)
        ELSE NoneQ]

RECURSIVE Power(_, _)
Power(x, n) == IF n = 0 THEN 1 ELSE x * Power(x, n - 1)

\* The n-th root of a perfect n-th power x >= 0.
Root(x, n) == CHOOSE r \in 0..x : Power(r, n) <= x /\ Power(r + 1, n) > x

\* _calculate_growth_rate: pow(latest / oldest, 1 / n).  Python's pow of a
\* negative float to a fractional power is a complex number; to the power 1.0
\* it is the float itself.  kind is "none", "real" (value in percent) or "complex".
_calculate_growth_rate(inp) ==
    LET history == inp.history
    IN IF Len(history) < 2 THEN [kind |-> "none", value |-> NoneQ]
       ELSE LET latest == history[1]
                oldest == history[Len(history)]
                n == Len(history) - 1
            IN IF ~Truthy(latest) \/ ~Truthy(oldest) \/ oldest <= 0
               THEN [kind |-> "none", value |-> NoneQ]
               ELSE IF n = 1
               THEN [kind |-> "real", value |-> Frac(100 * (latest - oldest), oldest)]
               ELSE IF latest < 0
               THEN [kind |-> "complex", value |-> NoneQ]
               ELSE LET q == Frac(latest, oldest)
                        rn == Root(q.n, n)
                        rd == Root(q.d, n)
                    IN [kind |-> "real", value |-> Frac(100 * (rn - rd), rd)]

\* RelativeValuation._calculate_score: the mean of the component scores, the
\* PEG score taken 1.2 times; 50 when there is no component.
Relative_calculate_score(relative_multiples, peg) ==
    LET t(k) == [n |-> k, d |-> 10]
        per_scores ==
            IF TruthyQ(relative_multiples.per_to_sector)
            THEN << 10 * normalize_score(relative_multiples.per_to_sector, t(7), t(9), t(11), TRUE) >>
            ELSE << >>
        pbr_scores ==
            IF TruthyQ(relative_multiples.pbr_to_sector)
            THEN << 10 * normalize_score(relative_multiples.pbr_to_sector, t(7), t(9), t(11), TRUE) >>
            ELSE << >>
        peg_scores ==
            IF TruthyQ(peg)
            THEN << 12 * normalize_score(peg, t(7), t(10), t(15), TRUE) >>
            ELSE << >>
        scores == per_scores \o pbr_scores \o peg_scores
    IN IF scores = << >> THEN Whole(50)
       ELSE Frac(SumFun(scores, DOMAIN scores), 10 * Len(scores))

\* RelativeValuation.calculate.  A complex growth rate raises TypeError at
\* "growth_rate > 0", or at round(growth_rate, 2) when the PER is absent.
Relative_calculate(inp) ==
    IF ~validate_data(inp) THEN get_error_result
    ELSE LET stock_metrics == _calculate_stock_metrics(inp)
             sector_metrics == _calculate_sector_metrics(inp)
         IN IF ~stock_metrics.ok \/ ~sector_metrics.ok THEN get_error_result
            ELSE LET relative_multiples ==
                         _calculate_relative_multiples(stock_metrics, sector_metrics)
                     growth_rate == _calculate_growth_rate(inp)
                 IN IF growth_rate.kind = "complex"
                    THEN [score |-> None, rating |-> "N/A", error |-> FALSE, raised |-> TRUE]
                    ELSE LET peg == IF /\ TruthyQ(stock_metrics.per)
                                       /\ TruthyQ(growth_rate.value)
                                       /\ growth_rate.value.n > 0
                                    THEN Frac(stock_metrics.per.n * growth_rate.value.d,
                                              stock_metrics.per.d * growth_rate.value.n)
                                    ELSE NoneQ
                             score == Relative_calculate_score(relative_multiples, peg)
                         IN [score |-> RoundScore(score),
                             rating |-> get_rating_from_score(score),
                             error |-> FALSE, raised |-> FALSE,
                             relative_multiples |-> relative_multiples,
                             peg_ratio |-> peg]

-----------------------------------------------------------------------------
(* calculate() of one model on loaded data: specification SpecModels *)

DCFParams ==
    { [wacc |-> w, terminal_growth |-> 2, tax_rate |-> 22] : w \in {1, 2, 8} }

Prices == {None, 0, 15, 30, 60, 180}

\* Data for which validate_data fails.
InvalidData ==
    { [EmptyData EXCEPT !.has_stock = FALSE, !.price = 60],
      [EmptyData EXCEPT !.has_financial = FALSE, !.price = 60],
      EmptyData }

\* EPS and BPS pairs; the positive pairs make 22.5 * EPS * BPS a square.
EpsBps ==
    { <<None, 4>>, <<0, 4>>, <<0 - 2, 4>>, <<10, None>>, <<10, 0>>, <<10, 0 - 4>>,
      <<10, 4>>, <<2, 5>>, <<10, 100>> }

ShareData ==
    { [total_cptl |-> c, thtr_ntin |-> t] :
        c \in {None, 0 - 400, 1000}, t \in {None, 500} }

DCFData ==
    InvalidData \cup
    { [EmptyData EXCEPT !.price = pr,
                        !.fs = [EmptyFS EXCEPT !.bsop_prti = oi, !.eps = eb[1], !.bps = eb[2],
                                               !.total_cptl = sh.total_cptl,
                                               !.thtr_ntin = sh.thtr_ntin]] :
        pr \in Prices \ {None}, oi \in {None, 0, 0 - 100, 100, 300, 1283},
        eb \in {<<None, 4>>, <<10, 0>>, <<10, 4>>, <<0, 0>>, <<10, 100>>}, sh \in ShareData }
    \cup
    \* One share, FCF int(1134 * 0.78) = 884: the upside is just under 50% at this price.
    { [EmptyData EXCEPT !.price = 10019,
                        !.fs = [EmptyFS EXCEPT !.bsop_prti = 1134, !.bps = 100,
                                               !.total_cptl = 100]] }

Histories ==
    { << >>, <<12>>, <<12, 10>>, <<8, 10>>, <<10, 10>>, <<0 - 5, 10>>, <<None, 10>>,
      <<10, 0 - 5>>, <<144, 120, 100>>, <<0 - 5, 3, 10>>,
      <<1728, 1440, 1200, 1000>>, <<0 - 5, 0 - 2, 3, 10>> }

GrahamData ==
    InvalidData \cup
    { [EmptyData EXCEPT !.price = pr, !.history = h, !.dividend_count = dv,
                        !.fs = [EmptyFS EXCEPT !.eps = eb[1], !.bps = eb[2],
                                               !.lblt_rate = lr, !.cras = cr,
                                               !.flow_lblt = 100, !.roe_val = roe]] :
        pr \in Prices \ {None}, eb \in EpsBps, lr \in {None, 0, 150, 250},
        cr \in {None, 100, 300}, roe \in {None, 20},
        h \in {<< >>, <<12, 10>>, <<8, 10>>}, dv \in {0, 3} }

MagicData ==
    InvalidData \cup
    { [EmptyData EXCEPT !.price = pr,
                        !.fs = [EmptyFS EXCEPT !.bsop_prti = oi, !.eps = eb[1], !.bps = eb[2],
                                               !.total_cptl = sh.total_cptl,
                                               !.thtr_ntin = sh.thtr_ntin,
                                               !.total_aset = al[1], !.total_lblt = al[2]]] :
        pr \in {0, 15, 60}, oi \in {None, 0 - 50, 30, 100, 250},
        eb \in {<<None, 4>>, <<10, 0>>, <<10, 4>>}, sh \in ShareData,
        al \in {<<None, 500>>, <<1500, 500>>, <<1000, 0>>, <<500, 800>>} }

RelativeData ==
    InvalidData \cup
    { [EmptyData EXCEPT !.price = pr, !.history = h, !.stock_count = sc,
                        !.avg_per = ap, !.avg_pbr = ab,
                        !.fs = [EmptyFS EXCEPT !.eps = eb[1], !.bps = eb[2]]] :
        pr \in {0, 60, 180}, h \in Histories, sc \in {0, 12},
        ap \in {None, 10}, ab \in {None, 1},
        eb \in {<<None, 100>>, <<0 - 2, 100>>, <<10, None>>, <<10, 100>>} }

InitModels ==
    /\ pc = "loaded"
    /\ caller_weights = NoWeightsArg
    /\ weights = Unset
    /\ model_scores = NoScores
    /\ result = Unset
    /\ request = Unset
    /\ ai_result = << >>
    /\ hybrid_result = Unset
    /\ outcome = "none"
    /\ calc = Unset
    /\ batch = Unset

Calculated(model, inp, res) ==
    /\ calc' = [model |-> model, inp |-> inp, res |-> res]
    /\ outcome' = IF res.raised THEN "raised" ELSE "returned"
    /\ pc' = "calculated"
    /\ UNCHANGED << caller_weights, weights, model_scores, result, request,
                    ai_result, hybrid_result, batch >>

RunDCF(inp, p) ==
    /\ pc = "loaded"
    /\ Calculated("dcf", inp, DCF_calculate(inp, p) @@ [params |-> p])

RunGraham(inp) ==
    /\ pc = "loaded"
    /\ Calculated("graham", inp, Graham_calculate(inp))

RunMagic(inp) ==
    /\ pc = "loaded"
    /\ Calculated("magic", inp, Magic_calculate(inp))

RunRelative(inp) ==
    /\ pc = "loaded"
    /\ Calculated("relative", inp, Relative_calculate(inp))

NextModels ==
    \/ \E inp \in DCFData, p \in DCFParams : RunDCF(inp, p)
    \/ \E inp \in GrahamData : RunGraham(inp)
    \/ \E inp \in MagicData : RunMagic(inp)
    \/ \E inp \in RelativeData : RunRelative(inp)

SpecModels == InitModels /\ [][NextModels]_vars

-----------------------------------------------------------------------------
(* The three score-to-rating functions on one score: specification SpecRatings *)

\* Scores in hundredths, from 0 to 120 points (Relative can return up to 120).
RatingScores == 0..(120 * 100)

RatingsOf(s) ==
    [composite |-> _get_composite_rating([n |-> s, d |-> 1]),
     hybrid |-> _get_rating_from_score(s),
     model |-> get_rating_from_score([n |-> s, d |-> 100])]

InitRatings ==
    /\ pc = "score"
    /\ caller_weights = NoWeightsArg
    /\ weights = Unset
    /\ model_scores = NoScores
    /\ result = Unset
    /\ request = Unset
    /\ ai_result = << >>
    /\ hybrid_result = Unset
    /\ outcome = "none"
    /\ calc = Unset
    /\ batch = Unset

Rate(s) ==
    /\ pc = "score"
    /\ calc' = [model |-> "rating", inp |-> s, res |-> RatingsOf(s)]
    /\ outcome' = "returned"
    /\ pc' = "rated"
    /\ UNCHANGED << caller_weights, weights, model_scores, result, request,
                    ai_result, hybrid_result, batch >>

NextRatings == \E s \in RatingScores : Rate(s)

SpecRatings == InitRatings /\ [][NextRatings]_vars

-----------------------------------------------------------------------------
(* analyze_batch_hybrid over analyze_stock: specification SpecBatch *)

\* len(tickers) > 10 is refused.
MaxBatch == 10

\* The ticker _load_stock does not find.
Unlisted == "999999"

BatchTickers == {"005930", "000660", Unlisted}

\* Longest ticker list drawn freely from BatchTickers.
MaxLen == 3

\* The tickers argument: every list of up to MaxLen tickers, and the lists of
\* MaxBatch and MaxBatch + 1 unlisted tickers.
BatchLists ==
    UNION { [1..n -> BatchTickers] : n \in 0..MaxLen }
    \cup { [i \in 1..n |-> Unlisted] : n \in {MaxBatch, MaxBatch + 1} }

Modes == {"summary", "full"}

\* Answers of the AdjustmentSource during a batch.  A call that times out
\* raises inside the client, which is the kind "call_raises".
BatchQualityResponses ==
    { r \in QualityResponses :
        \/ r.kind \in {"call_raises", "score_null"}
        \/ r.kind = "score" /\ r.score_adjustment \in {300, 0 - 1600} }

BatchSentimentResponses == { r \in SentimentResponses : r.kind \in {"no_opinions", "call_raises"} }

BatchAnomalyResponses == { r \in AnomalyResponses : r.kind \in {"no_data", "call_raises"} }

InitBatch ==
    /\ pc = "request"
    /\ caller_weights = NoWeightsArg
    /\ weights = ComprehensiveValuation_init(NoWeightsArg)
    /\ model_scores = NoScores
    /\ result = Unset
    /\ request = Unset
    /\ ai_result = << >>
    /\ hybrid_result = Unset
    /\ outcome = "none"
    /\ calc = Unset
    /\ batch = Unset

\* The two guards at the head of analyze_batch_hybrid, then service and
\* results = [].
Receive(tickers, mode) ==
    /\ pc = "request"
    /\ batch' = [tickers |-> tickers, mode |-> mode, results |-> << >>,
                 analysed |-> << >>, response |-> Unset]
    /\ IF tickers = << >> \/ Len(tickers) > MaxBatch
       THEN pc' = "rejected" /\ outcome' = "raised"
       ELSE pc' = "loop" /\ outcome' = "none"
    /\ UNCHANGED << caller_weights, weights, model_scores, result, request, ai_result,
                    hybrid_result, calc >>

\* The body of the for loop after analyze_stock ended as res: what is appended
\* to results.  A returned error dictionary has no 'stock_name' (or no
\* 'traditional_valuation'), so mode summary raises KeyError into the except
\* clause; mode full appends the dictionary, which holds 'error' and 'ticker'.
\* adjusted_score is result["hybrid_result"]["adjusted_score"], copied to the
\* top level in mode summary.
BatchRecord(mode, ticker, res) ==
    CASE res.kind = "raised" -> [ticker |-> ticker, error |-> TRUE, adjusted_score |-> None]
      [] res.kind = "error" -> [ticker |-> ticker, error |-> TRUE, adjusted_score |-> None]
      [] OTHER -> [ticker |-> ticker, error |-> FALSE, adjusted_score |-> res.adjusted_score]

\* The ticker the for loop is at.
CurrentTicker == batch.tickers[Len(batch.results) + 1]

\* batch after analyze_stock ended as res for the current ticker: the call is
\* noted in analysed and its record appended to results.
AfterTicker(res) ==
    [batch EXCEPT !.results = Append(@, BatchRecord(batch.mode, CurrentTicker, res)),
                  !.analysed = Append(@, [ticker |-> CurrentTicker, kind |-> res.kind,
                                          adjusted_score |-> res.adjusted_score])]

\* An iteration enters analyze_stock(ticker, include_ai_adjustment=True,
\* include_sentiment=True): an unlisted ticker returns the error dictionary at
\* once, a listed one runs Layer 1 and reaches the first AdjustmentSource call.
StartTicker ==
    /\ pc = "loop"
    /\ Len(batch.results) < Len(batch.tickers)
    /\ IF CurrentTicker = Unlisted
       THEN /\ batch' = AfterTicker([kind |-> "error", adjusted_score |-> None])
            /\ pc' = "loop"
            /\ UNCHANGED << request, result, ai_result >>
       ELSE /\ request' = [found |-> TRUE, include_ai_adjustment |-> TRUE,
                           include_sentiment |-> TRUE]
            /\ result' = _run_traditional_valuation(StockScores(CurrentTicker))
            /\ ai_result' = << >>
            /\ pc' = "quality"
            /\ UNCHANGED batch
    /\ UNCHANGED << caller_weights, weights, model_scores, hybrid_result, outcome, calc >>

\* analyze_stock ends for the current ticker: after _integrate_results raised,
\* or after _generate_interpretation (whose own failure falls back to a fixed
\* text) and the return.  The loop body appends the record.
FinishTicker ==
    /\ pc = "done"
    /\ batch' = AfterTicker(IF outcome = "raised"
                            THEN [kind |-> "raised", adjusted_score |-> None]
                            ELSE [kind |-> "returned",
                                  adjusted_score |-> hybrid_result.adjusted_score])
    /\ request' = Unset
    /\ result' = Unset
    /\ ai_result' = << >>
    /\ hybrid_result' = Unset
    /\ outcome' = "none"
    /\ pc' = "loop"
    /\ UNCHANGED << caller_weights, weights, model_scores, calc >>

\* A mis-ordering of results_sorted: ascending instead of descending.
results_sorted_ascending(mode, results) ==
    LET ok == SelectSeq(results, LAMBDA r : ~r.error)
        n == Len(ok)
        pos(i) == 1 + Cardinality({ j \in 1..n :
                        \/ ok[j].adjusted_score < ok[i].adjusted_score
                        \/ (ok[j].adjusted_score = ok[i].adjusted_score /\ j < i) })
    IN [p \in 1..n |-> ok[CHOOSE i \in 1..n : pos(i) = p]]

\* results_sorted: the records without 'error', by adjusted score, descending.
results_sorted(mode, results) ==
    LET ok == SelectSeq(results, LAMBDA r : ~r.error)
    IN StableSortDesc(ok, [i \in 1..Len(ok) |-> ok[i].adjusted_score])

\* The dictionary analyze_batch_hybrid returns.
BatchResponse(mode, results) ==
    LET sorted == results_sorted(mode, results)
        errors == SelectSeq(results, LAMBDA r : r.error)
    IN [mode |-> mode,
        total |-> Len(results),
        success |-> Len(sorted),
        failed |-> Len(errors),
        results |-> sorted \o errors]

\* The for loop is exhausted: sort, split and return.
Respond ==
    /\ pc = "loop"
    /\ Len(batch.results) = Len(batch.tickers)
    /\ batch' = [batch EXCEPT !.response = BatchResponse(batch.mode, batch.results)]
    /\ outcome' = "returned"
    /\ pc' = "responded"
    /\ UNCHANGED << caller_weights, weights, model_scores, result, request, ai_result,
                    hybrid_result, calc >>

NextBatch ==
    \/ \E tickers \in BatchLists, mode \in Modes : Receive(tickers, mode)
    \/ StartTicker
    \/ \E resp \in BatchQualityResponses : QualityCheck(resp)
    \/ \E resp \in BatchSentimentResponses : SentimentAnalysis(resp)
    \/ \E resp \in BatchAnomalyResponses : AnomalyDetection(resp)
    \/ Integrate
    \/ FinishTicker
    \/ Respond

SpecBatch == InitBatch /\ [][NextBatch]_vars

-----------------------------------------------------------------------------
(* Properties of ComprehensiveValuation (SpecComposite) *)

Constructed == pc \in {"constructed", "analyzed"}

PositiveCallerMap == caller_weights.given /\ DOMAIN caller_weights.map # {}

Present(ms) == {m \in ModelSet : ms[m] # None}

\* C1: after construction with a positive caller weight map, the weights held
\* sum to 1.0 (the numerators sum to the common divisor).
C1_WeightsSumToOne ==
    (Constructed /\ PositiveCallerMap)
        => SumFun(weights.w, DOMAIN weights.w) = weights.den

\* C3: for a positive caller weight map and present scores within [0,100],
\* the composite computed by analyze lies in [0,100].
C3_CompositeInRange ==
    (/\ pc = "analyzed"
     /\ PositiveCallerMap
     /\ \A m \in Present(model_scores) : model_scores[m] >= 0 /\ model_scores[m] <= 10000)
        => /\ FracGE(result.composite, 0) /\ FracLE(result.composite, 10000)
           /\ result.composite_score >= 0 /\ result.composite_score <= 10000

\* sum of weight[m] * score[m] over the models in S
RECURSIVE WeightedSum(_, _, _)
WeightedSum(w, ms, S) ==
    IF S = {} THEN 0
    ELSE LET m == CHOOSE x \in S : TRUE
         IN Get(w, m, 0) * ms[m] + WeightedSum(w, ms, S \ {m})

\* sum of weight[m] over the models in S
RECURSIVE WeightOf(_, _)
WeightOf(w, S) ==
    IF S = {} THEN 0
    ELSE LET m == CHOOSE x \in S : TRUE
         IN Get(w, m, 0) + WeightOf(w, S \ {m})

Scenario3 ==
    [m \in ModelSet |->
        CASE m = "dcf" -> 8000 [] m = "relative" -> None [] m = "graham" -> 7000
          [] OTHER -> 7700]

\* C4: the composite equals (sum of weight*score over the present models) /
\* (sum of weight over the present models) * (sum of all weights), and 0 when the
\* present models carry no weight; analyze returns whatever models are absent;
\* default weights with dcf 80, relative absent, graham 70, magic 77 give 75.87.
C4_CompositeFormula ==
    pc = "analyzed" =>
        LET P == Present(model_scores)
            valid_weight == WeightOf(weights.w, P)
            all_weight == SumFun(weights.w, DOMAIN weights.w)
        IN /\ outcome = "returned"
           /\ valid_weight = 0 => result.composite = [n |-> 0, d |-> 1]
           /\ valid_weight # 0 =>
                 result.composite = Frac(WeightedSum(weights.w, model_scores, P) * all_weight,
                                         valid_weight * weights.den)
           /\ (~caller_weights.given /\ model_scores = Scenario3)
                 => result.composite_score = 7587

\* C4 witness: the worked scenario has been analysed with the default weights,
\* one model absent.
C4_Witness ==
    /\ pc = "analyzed"
    /\ ~caller_weights.given
    /\ model_scores = Scenario3
    /\ result.composite_score = 7587

\* C5: model_scores of the result holds None for a model exactly when the model
\* produced no score; a computed score of 0 is reported as 0.
C5_NoneIffAbsent ==
    pc = "analyzed" =>
        \A m \in ModelSet :
            /\ (result.model_scores[m] = None) <=> (model_scores[m] = None)
            /\ model_scores[m] = 0 => result.model_scores[m] = 0

\* The score a result carries in the field the caller sorts by: the composite
\* score, or the score of the model the caller names.
SortValue(x, sort_by) ==
    IF sort_by = "composite_score" THEN x.composite_score ELSE x.model_scores[sort_by]

\* C18: compare_multiple returns the results in descending order of the field
\* the caller names in sort_by: the composite score by default, and the named
\* model's score when sort_by names a model such as 'dcf' (two results that
\* both carry a score in that field never stand in ascending order).
C18_SortedBySortField ==
    pc = "compared" =>
        \A i \in 1..Len(result), j \in 1..Len(result) :
            (/\ i < j
             /\ SortValue(result[i], request.sort_by) # None
             /\ SortValue(result[j], request.sort_by) # None)
                => SortValue(result[i], request.sort_by) >= SortValue(result[j], request.sort_by)

\* The entries of a list, as a set.
Listed(list) == { list[i] : i \in 1..Len(list) }

\* C27: in every result of analyze a present model score of 75 or more is
\* listed as a strength and a present score below 40 as a weakness; an absent
\* model is in neither list, no model is in both, and a list no model
\* qualifies for holds only its placeholder.
C27_StrengthsAndWeaknesses ==
    pc = "analyzed" =>
        LET strong == { m \in ModelSet : model_scores[m] # None /\ model_scores[m] >= 75 * 100 }
            weak == { m \in ModelSet : model_scores[m] # None /\ model_scores[m] < 40 * 100 }
        IN /\ Listed(result.strengths) \cap ModelSet = strong
           /\ Listed(result.weaknesses) \cap ModelSet = weak
           /\ \A m \in ModelSet :
                 model_scores[m] = None
                    => m \notin Listed(result.strengths) \cup Listed(result.weaknesses)
           /\ Listed(result.strengths) \cap Listed(result.weaknesses) = {}
           /\ strong = {} <=> result.strengths = << NoStrength >>
           /\ weak = {} <=> result.weaknesses = << NoWeakness >>
           /\ Len(result.strengths) = IF strong = {} THEN 1 ELSE Cardinality(strong)
           /\ Len(result.weaknesses) = IF weak = {} THEN 1 ELSE Cardinality(weak)

\* C27 witness: Graham at exactly 75 is the only strength, DCF at 0 the only
\* weakness, and the absent Magic Formula is in neither list.
C27_Witness ==
    /\ pc = "analyzed"
    /\ model_scores["graham"] = 75 * 100
    /\ model_scores["dcf"] = 0
    /\ model_scores["relative"] = 40 * 100
    /\ model_scores["magic"] = None
    /\ result.strengths = << "graham" >>
    /\ result.weaknesses = << "dcf" >>

-----------------------------------------------------------------------------
(* Properties of the four models (SpecModels) *)

\* C2: a present score returned by DCF, Graham, Magic Formula or Relative lies
\* in [0,100].
C2_ModelScoreInRange ==
    (pc = "calculated" /\ ~calc.res.raised /\ calc.res.score # None)
        => calc.res.score >= 0 /\ calc.res.score <= 10000

\* C7: calculate() of every model returns a result; it never raises.
C7_CalculateNeverRaises ==
    pc = "calculated" => (outcome = "returned" /\ ~calc.res.raised)

GrahamNumberUndefined(fs) ==
    \/ fs.eps = None \/ fs.eps <= 0
    \/ fs.bps = None \/ fs.bps <= 0

\* C8: Graham returns an absent score, with an error message, whenever EPS or
\* BPS is missing or not positive.
C8_GrahamAbsentWithoutNumber ==
    (pc = "calculated" /\ calc.model = "graham" /\ GrahamNumberUndefined(calc.inp.fs))
        => calc.res.score = None /\ calc.res.error

\* FCF x (1 + g/100) / ((WACC - g)/100), for WACC > g.
TerminalValue(fcf, p) == Frac(fcf * (100 + p.terminal_growth), p.wacc - p.terminal_growth)

\* C20: DCF returns an absent score, without raising, whenever WACC <= terminal
\* growth, whatever the snapshot and the price; and when WACC > terminal
\* growth, FCF > 0 and the share estimate is positive (on valid data with a
\* current price), the intrinsic value per share it computes is
\* FCF x (1 + g/100) / ((WACC - g)/100) / shares.
C20_DCFPrecondition ==
    (pc = "calculated" /\ calc.model = "dcf") =>
        LET p == calc.res.params
            fcf == _calculate_fcf(calc.inp, p)
            shares == _estimate_shares_outstanding(calc.inp)
        IN /\ p.wacc <= p.terminal_growth =>
                 (calc.res.score = None /\ calc.res.error /\ ~calc.res.raised)
           /\ (/\ validate_data(calc.inp)
               /\ Truthy(calc.inp.price)
               /\ p.wacc > p.terminal_growth
               /\ fcf # None
               /\ fcf > 0
               /\ TruthyQ(shares)
               /\ shares.n > 0) =>
                 LET tv == TerminalValue(fcf, p)
                 IN /\ ~calc.res.error
                    /\ calc.res.intrinsic_value = Frac(tv.n * shares.d, tv.d * shares.n)

\* C20 witness: WACC 8, growth 2, FCF 1000 and 10 shares (the scenario's
\* 1,000,000,000 and 10,000,000, both in millions) give 1700 per share.
C20_Witness ==
    /\ pc = "calculated"
    /\ calc.model = "dcf"
    /\ calc.res.params.wacc = 8
    /\ calc.res.params.terminal_growth = 2
    /\ _calculate_fcf(calc.inp, calc.res.params) = 1000
    /\ _estimate_shares_outstanding(calc.inp) = [n |-> 1000, d |-> 100]
    /\ ~calc.res.error
    /\ calc.res.intrinsic_value = [n |-> 1700, d |-> 1]

\* The DCF rating band of an upside percentage.
UpsideBand(upside_pct) ==
    IF FracGE(upside_pct, 50) THEN "strong_buy"
    ELSE IF FracGE(upside_pct, 30) THEN "buy"
    ELSE IF FracGE(upside_pct, 10) THEN "undervalued"
    ELSE IF FracGE(upside_pct, 0 - 10) THEN "fair"
    ELSE IF FracGE(upside_pct, 0 - 30) THEN "overvalued"
    ELSE "strong_sell"

\* C21: every available DCF result has score = clamp(upside% + 50, 0, 100) and
\* the rating of its upside band; a score of 100 occurs exactly when the
\* rating is strong_buy, and an upside of -50% or less gives score 0.
C21_DCFScoreAndBand ==
    (pc = "calculated" /\ calc.model = "dcf" /\ ~calc.res.error) =>
        LET upside == calc.res.upside_pct
        IN /\ calc.res.score
                 = RoundScore(ClampQ([n |-> upside.n + 50 * upside.d, d |-> upside.d], 0, 100))
           /\ calc.res.rating = UpsideBand(upside)
           /\ calc.res.score = 100 * 100 <=> calc.res.rating = "strong_buy"
           /\ FracLE(upside, 0 - 50) => calc.res.score = 0

\* The Graham number is defined and there is a price to compare it with.
MarginDefined(inp) ==
    /\ inp.fs.eps # None /\ inp.fs.eps > 0
    /\ inp.fs.bps # None /\ inp.fs.bps > 0
    /\ inp.price # None /\ inp.price > 0

\* The margin of safety in percent, (Graham number - price) / Graham number.
MarginOfSafety(inp) ==
    LET gn == Sqrt((45 * inp.fs.eps * inp.fs.bps) \div 2)
    IN Frac(100 * (gn - inp.price), gn)

\* C22: for every defined margin of safety the Graham score is
\* (criteria_passed / 7) x 70 + clamp((margin + 30) / 60 x 30, 0, 30); a margin
\* of exactly 0% (price equal to the Graham number) contributes 15 points.
C22_GrahamScoreFormula ==
    (pc = "calculated" /\ calc.model = "graham" /\ ~calc.res.error /\ MarginDefined(calc.inp)) =>
        LET m == MarginOfSafety(calc.inp)
            safety == ClampQ([n |-> m.n + 30 * m.d, d |-> 2 * m.d], 0, 30)
        IN calc.res.score
              = RoundScore([n |-> calc.res.criteria_passed * 10 * safety.d + safety.n,
                            d |-> safety.d])

\* A snapshot field that holds a number.
Has(v) == v # None

\* C23: each of Graham's seven flags equals its predicate on the snapshot:
\* PER < 15, PBR < 1.5, debt ratio < 200% (a debt ratio of 0 included),
\* current assets / current liabilities > 200%, ROE > 15%, latest net income
\* above the earliest of the window, at least 3 dividend rows; and
\* criteria_passed is the number of flags set, in 0..7.
C23_GrahamCriteria ==
    (pc = "calculated" /\ calc.model = "graham" /\ ~calc.res.error) =>
        LET fs == calc.inp.fs
            price == calc.inp.price
            history == calc.inp.history
            c == calc.res.criteria_details
        IN /\ c.per_ok <=> (Has(fs.eps) /\ fs.eps > 0 /\ price > 0 /\ price < 15 * fs.eps)
           /\ c.pbr_ok <=> (Has(fs.bps) /\ fs.bps > 0 /\ price > 0 /\ 2 * price < 3 * fs.bps)
           /\ c.debt_ok <=> (Has(fs.lblt_rate) /\ fs.lblt_rate < 200)
           /\ c.current_ratio_ok <=> (/\ Has(fs.cras) /\ Has(fs.flow_lblt) /\ fs.flow_lblt > 0
                                      /\ 100 * fs.cras > 200 * fs.flow_lblt)
           /\ c.roe_ok <=> (Has(fs.roe_val) /\ fs.roe_val > 15)
           /\ c.earnings_growth_ok <=> (/\ Len(history) >= 2
                                        /\ Has(history[1]) /\ Has(history[Len(history)])
                                        /\ history[1] > history[Len(history)])
           /\ c.dividend_ok <=> calc.inp.dividend_count >= 3
           /\ calc.res.criteria_passed = Cardinality({k \in DOMAIN c : c[k]})
           /\ calc.res.criteria_passed \in 0..7

\* The piecewise map of a ratio that is better when higher: 100 from excellent
\* up, 80 from good, 60 from fair, else 40.
NormHigher(q, excellent, good, fair) ==
    IF FracGE(q, excellent) THEN 100
    ELSE IF FracGE(q, good) THEN 80
    ELSE IF FracGE(q, fair) THEN 60
    ELSE 40

\* Operating income, invested capital (total assets - total liabilities) and
\* the estimated market cap of a snapshot are all positive.
MagicInputsPositive(inp) ==
    /\ Has(inp.fs.bsop_prti) /\ inp.fs.bsop_prti > 0
    /\ Has(inp.fs.total_aset) /\ Has(inp.fs.total_lblt)
    /\ inp.fs.total_aset - inp.fs.total_lblt > 0
    /\ Has(_estimate_market_cap(inp)) /\ _estimate_market_cap(inp) > 0

\* C24: Magic Formula is unavailable exactly when ROIC or Earnings Yield is
\* not positive: on every snapshot with positive operating income, positive
\* invested capital (a company with zero liabilities included) and positive
\* estimated market cap it returns the score
\* 0.5 x norm(ROIC; 20/10/5) + 0.5 x norm(EY; 10/5/2).
C24_MagicAvailability ==
    (pc = "calculated" /\ calc.model = "magic" /\ validate_data(calc.inp)) =>
        LET fs == calc.inp.fs
        IN /\ calc.res.error <=> ~MagicInputsPositive(calc.inp)
           /\ MagicInputsPositive(calc.inp) =>
                 LET roic == Frac(100 * fs.bsop_prti, fs.total_aset - fs.total_lblt)
                     ey == Frac(100 * fs.bsop_prti, _estimate_market_cap(calc.inp))
                 IN /\ ~calc.res.error
                    /\ calc.res.score
                          = 50 * (NormHigher(roic, 20, 10, 5) + NormHigher(ey, 10, 5, 2))

\* The inverse piecewise map of a ratio q: <= 0.7 gives 100, <= 0.9 gives 80,
\* <= 1.1 gives 60, else 40.
InverseMap(q) ==
    IF 10 * q.n <= 7 * q.d THEN 100
    ELSE IF 10 * q.n <= 9 * q.d THEN 80
    ELSE IF 10 * q.n <= 11 * q.d THEN 60
    ELSE 40

\* C25: every available Relative component (PER-to-sector, PBR-to-sector, PEG)
\* is scored by the same inverse map with thresholds 0.7 / 0.9 / 1.1; the score
\* is the average over the components present, and 50 when none is present.
C25_RelativeScoreMap ==
    (pc = "calculated" /\ calc.model = "relative" /\ ~calc.res.error /\ ~calc.res.raised) =>
        LET components == << calc.res.relative_multiples.per_to_sector,
                             calc.res.relative_multiples.pbr_to_sector,
                             calc.res.peg_ratio >>
            present == { i \in 1..3 : ~IsNoneQ(components[i]) }
            points == [i \in present |-> InverseMap(components[i])]
        IN calc.res.score
              = IF present = {} THEN 50 * 100
                ELSE RoundScore(Frac(SumFun(points, present), Cardinality(present)))

\* C29: the weaknesses list of analyze never names the Magic Formula model or
\* the Relative model: a present score of either model is never below 40, so
\* _analyze_strengths_weaknesses does not list it.
C29_MagicRelativeNeverWeak ==
    (pc = "calculated" /\ calc.model \in {"magic", "relative"} /\ ~calc.res.raised) =>
        LET score == calc.res.score
            sw == _analyze_strengths_weaknesses([NoScores EXCEPT ![calc.model] = score])
        IN /\ score # None => score >= 40 * 100
           /\ calc.model \notin Listed(sw.weaknesses)
           /\ sw.weaknesses = << NoWeakness >>

\* C29 witness: a Magic Formula result whose ROIC and earnings yield both fall
\* in the lowest band scores exactly 40 and is not a weakness.
C29_Witness ==
    /\ pc = "calculated"
    /\ calc.model = "magic"
    /\ ~calc.res.error
    /\ calc.res.score = 40 * 100
    /\ "magic" \notin Listed(_analyze_strengths_weaknesses(
                                [NoScores EXCEPT !["magic"] = calc.res.score]).weaknesses)

\* Graham's ratings in their order poor < fair < good < excellent.
GrahamRank(rating) ==
    CASE rating = "poor" -> 1
      [] rating = "fair" -> 2
      [] rating = "good" -> 3
      [] rating = "excellent" -> 4

\* Snapshots to compare a Graham result with: those of GrahamData in which only
\* the PER, PBR and debt criteria can pass.
GrahamPeers ==
    { d \in GrahamData : /\ validate_data(d)
                         /\ d.history = << >>
                         /\ d.dividend_count = 0
                         /\ d.fs.cras = None
                         /\ d.fs.roe_val = None }

\* C30: Graham's rating is consistent with its score: of any two Graham
\* results, the one with the strictly higher score never has the lower rating
\* in the order poor < fair < good < excellent.
C30_GrahamRatingFollowsScore ==
    (pc = "calculated" /\ calc.model = "graham" /\ ~calc.res.error) =>
        \A d \in GrahamPeers :
            LET other == Graham_calculate(d)
            IN other.score > calc.res.score
                  => GrahamRank(other.rating) >= GrahamRank(calc.res.rating)

-----------------------------------------------------------------------------
(* Properties of analyze_stock (Spec) *)

HasAdjustment(type) ==
    \E i \in 1..Len(hybrid_result.adjustments) : hybrid_result.adjustments[i].type = type

\* C6: when all four models are absent the composite is 0 and the result given
\* back does not carry the rating 'sell' or a sell recommendation.
C6_AllAbsentIsNotSell ==
    (pc = "done" /\ request.found /\ model_scores = NoScores)
        => /\ result.composite_score = 0
           /\ result.composite_rating # "sell"
           /\ result.investment_recommendation.band # "sell_review"
           /\ outcome = "returned" => hybrid_result.final_rating # "sell"

\* C9: without AI adjustment the hybrid result is the composite result: no
\* adjustments, no score change, the same score, the same rating, confidence high.
C9_NoAdjustmentIsComposite ==
    (pc = "done" /\ request.found /\ ~request.include_ai_adjustment)
        => /\ outcome = "returned"
           /\ hybrid_result.adjustments = << >>
           /\ hybrid_result.adjustment_count = 0
           /\ hybrid_result.score_change = 0
           /\ hybrid_result.adjusted_score = result.composite_score
           /\ hybrid_result.final_rating = result.composite_rating
           /\ hybrid_result.confidence_level = "high"

QualityFailed ==
    \/ ai_result["financial_quality_check"].error
    \/ ~IsNumber(ai_result["financial_quality_check"].score_adjustment)

AnomalyFailed ==
    \/ ai_result["anomaly_detection"].error
    \/ ~ai_result["anomaly_detection"].patterns_ok

\* C10: a request whose AI signals failed (exception, timeout, malformed answer)
\* still returns a hybrid result, with no adjustment from the failed signal.
C10_SourceFailureIsAbsent ==
    (pc = "done" /\ request.found /\ request.include_ai_adjustment)
        => /\ outcome = "returned"
           /\ QualityFailed => ~HasAdjustment("financial_quality")
           /\ AnomalyFailed => ~HasAdjustment("anomaly_detected")
           /\ ("sentiment_analysis" \in DOMAIN ai_result
                 /\ ai_result["sentiment_analysis"].error)
                 => ~(HasAdjustment("negative_sentiment") \/ HasAdjustment("positive_sentiment"))

Returned == pc = "done" /\ request.found /\ outcome = "returned"

RECURSIVE SumDeltas(_)
SumDeltas(adjustments) ==
    IF adjustments = << >> THEN 0
    ELSE Head(adjustments).adjustment + SumDeltas(Tail(adjustments))

Clamp100(x) == IF x > 10000 THEN 10000 ELSE IF x < 0 THEN 0 ELSE x

C12_RatingOfReportedScore ==
    Returned => hybrid_result.final_rating = _get_rating_from_score(hybrid_result.adjusted_score)

RECURSIVE TotalAbs(_)
TotalAbs(adjustments) ==
    IF adjustments = << >> THEN 0
    ELSE LET d == Head(adjustments).adjustment
         IN (IF d < 0 THEN 0 - d ELSE d) + TotalAbs(Tail(adjustments))

\* C13: a total absolute adjustment above 15 gives confidence 'low', above 8
\* gives 'medium' or 'low', and no recorded adjustment gives 'high'.
C13_ConfidenceThresholds ==
    Returned =>
        LET total == TotalAbs(hybrid_result.adjustments)
        IN /\ total > 1500 => hybrid_result.confidence_level = "low"
           /\ total > 800 => hybrid_result.confidence_level \in {"medium", "low"}
           /\ hybrid_result.adjustments = << >> => hybrid_result.confidence_level = "high"

\* C13 witness: a result whose adjustments total exactly 16.
C13_Witness ==
    /\ Returned
    /\ TotalAbs(hybrid_result.adjustments) = 1600
    /\ hybrid_result.confidence_level = "low"

\* C15: every recorded adjustment has a delta within [-15, +15].
C15_DeltaWithin15 ==
    Returned =>
        \A i \in 1..Len(hybrid_result.adjustments) :
            /\ hybrid_result.adjustments[i].adjustment >= 0 - 1500
            /\ hybrid_result.adjustments[i].adjustment <= 1500

IntegrationSteps == {"quality", "sentiment", "anomaly"}

StepOrders ==
    { o \in [1..3 -> IntegrationSteps] : \A i, j \in 1..3 : i # j => o[i] # o[j] }

ApplyStep(name, st, ai) ==
    IF name = "quality" THEN IntegrateQuality(st, ai)
    ELSE IF name = "sentiment" THEN IntegrateSentiment(st, ai)
    ELSE IntegrateAnomaly(st, ai)

\* The running state after the steps of order o, started from the base score.
ApplyInOrder(o, base_score, ai) ==
    LET st0 == [raised |-> FALSE, base_score |-> base_score, adjusted_score |-> base_score,
                adjustments |-> << >>, confidence_factors |-> << >>]
    IN ApplyStep(o[3], ApplyStep(o[2], ApplyStep(o[1], st0, ai), ai), ai)

AuditPosition(type) ==
    IF type = "financial_quality" THEN 1
    ELSE IF type \in {"negative_sentiment", "positive_sentiment"} THEN 2
    ELSE 3

\* C16: applying the three steps in any order gives the adjusted score that
\* was returned; the adjustments are listed quality, sentiment, anomaly, and
\* adjustment_count is the length of the list.
C16_OrderIndependent ==
    Returned =>
        /\ \A o \in StepOrders :
              Round1(Clamp100(ApplyInOrder(o, result.composite_score, ai_result).adjusted_score))
                  = hybrid_result.adjusted_score
        /\ \A i, j \in 1..Len(hybrid_result.adjustments) :
              i < j => AuditPosition(hybrid_result.adjustments[i].type)
                         < AuditPosition(hybrid_result.adjustments[j].type)
        /\ hybrid_result.adjustment_count = Len(hybrid_result.adjustments)

\* C16 witness: a result with one adjustment of each signal.
C16_Witness ==
    /\ Returned
    /\ Len(hybrid_result.adjustments) = 3
    /\ hybrid_result.adjustments[2].type = "positive_sentiment"

\* The sentiment delta the table of deltas gives an impact on a base score.
TableSentimentDelta(impact, base) ==
    CASE impact = "negative_strong" -> 0 - 800
      [] impact = "negative_moderate" -> 0 - 400
      [] impact = "positive_strong" /\ base < 70 * 100 -> 500
      [] impact = "positive_moderate" /\ base < 70 * 100 -> 200
      [] OTHER -> 0

\* The anomaly delta the table gives an anomaly result.
TableAnomalyDelta(anomaly) ==
    IF ~anomaly.anomalies_detected THEN 0
    ELSE CASE anomaly.severity = "high" -> 0 - 1000
           [] anomaly.severity = "medium" -> 0 - 500
           [] OTHER -> 0 - 200

\* The deltas of the given types recorded in a hybrid result, in order.
RecordedDeltas(hr, types) ==
    LET picked == SelectSeq(hr.adjustments, LAMBDA a : a.type \in types)
    IN [i \in 1..Len(picked) |-> picked[i].adjustment]

\* C26: _integrate_results turns the signals into deltas by the table:
\* negative_strong -8 and negative_moderate -4 whatever the base;
\* positive_strong +5 and positive_moderate +2 only when the base composite is
\* below 70; nothing for neutral or none; an anomaly -10 (high), -5 (medium)
\* or -2 (low) only when anomalies were detected.  A delta of zero is not
\* recorded.
C26_SignalsToDeltas ==
    Returned =>
        LET base == result.composite_score
            sentiment_adj == IF "sentiment_analysis" \in DOMAIN ai_result
                             THEN TableSentimentDelta(ai_result["sentiment_analysis"].impact, base)
                             ELSE 0
            anomaly_adj == IF "anomaly_detection" \in DOMAIN ai_result
                           THEN TableAnomalyDelta(ai_result["anomaly_detection"])
                           ELSE 0
        IN /\ RecordedDeltas(hybrid_result, {"negative_sentiment", "positive_sentiment"})
                 = IF sentiment_adj = 0 THEN << >> ELSE << sentiment_adj >>
           /\ RecordedDeltas(hybrid_result, {"anomaly_detected"})
                 = IF anomaly_adj = 0 THEN << >> ELSE << anomaly_adj >>
           /\ \A i \in 1..Len(hybrid_result.adjustments) :
                 hybrid_result.adjustments[i].type = "positive_sentiment" => sentiment_adj > 0

\* C26 witness: a positive_strong sentiment on a base of 70 or more gave no
\* sentiment delta while a detected medium anomaly gave -5.
C26_Witness ==
    /\ Returned
    /\ "sentiment_analysis" \in DOMAIN ai_result
    /\ ai_result["sentiment_analysis"].impact = "positive_strong"
    /\ result.composite_score >= 70 * 100
    /\ "anomaly_detection" \in DOMAIN ai_result
    /\ ai_result["anomaly_detection"].anomalies_detected
    /\ ai_result["anomaly_detection"].severity = "medium"
    /\ RecordedDeltas(hybrid_result, {"negative_sentiment", "positive_sentiment"}) = << >>
    /\ RecordedDeltas(hybrid_result, {"anomaly_detected"}) = << 0 - 500 >>

\* The hybrid result of another ticker whose models score ms, under the AI
\* signals of the current state.
OtherTicker(ms) ==
    LET traditional == _run_traditional_valuation(ms)
    IN [base |-> traditional.composite_score,
        hybrid |-> _integrate_results(traditional, ai_result)]

PositiveImpact ==
    /\ "sentiment_analysis" \in DOMAIN ai_result
    /\ ai_result["sentiment_analysis"].impact \in {"positive_strong", "positive_moderate"}

\* C28: for fixed AI signals the adjusted score is a non-decreasing function of
\* the base score: a ticker with a higher composite never ends with a lower
\* adjusted score than a ticker with a lower composite.
C28_AdjustedMonotoneInBase ==
    Returned =>
        \A ms \in HybridScores :
            LET other == OtherTicker(ms)
            IN other.base > result.composite_score
                  => /\ ~other.hybrid.raised
                     /\ other.hybrid.adjusted_score >= hybrid_result.adjusted_score

\* C28 amended: for fixed AI signals the adjusted score is non-decreasing in the
\* base score among tickers whose sentiment impact is not positive, and among
\* tickers whose composites are on the same side of 70.
C28_AdjustedMonotoneWithinBand ==
    Returned =>
        \A ms \in HybridScores :
            LET other == OtherTicker(ms)
            IN /\ other.base > result.composite_score
               /\ \/ ~PositiveImpact
                  \/ (other.base < 70 * 100) <=> (result.composite_score < 70 * 100)
               => /\ ~other.hybrid.raised
                  /\ other.hybrid.adjusted_score >= hybrid_result.adjusted_score

\* C28 witness: a positive_strong sentiment raised a composite of 0 by 5, and a
\* ticker with the same signals and a composite of 69.99 ends higher.
C28_Witness ==
    /\ Returned
    /\ PositiveImpact
    /\ ai_result["sentiment_analysis"].impact = "positive_strong"
    /\ result.composite_score = 0
    /\ hybrid_result.adjusted_score > 0
    /\ \E ms \in HybridScores :
          /\ OtherTicker(ms).base = 6999
          /\ OtherTicker(ms).hybrid.adjusted_score > hybrid_result.adjusted_score

-----------------------------------------------------------------------------
(* Properties of the rating functions (SpecRatings) *)

BandRank(rating) ==
    CASE rating = "sell" -> 0 [] rating = "reduce" -> 1 [] rating = "hold" -> 2
      [] rating = "accumulate" -> 3 [] rating = "buy" -> 4 [] rating = "strong_buy" -> 5

ModelBandRank(rating) ==
    CASE rating = "very_poor" -> 0 [] rating = "poor" -> 1 [] rating = "fair" -> 2
      [] rating = "good" -> 3 [] rating = "excellent" -> 4

\* C14: each rating function is non-decreasing in the score (the band of a
\* score is never below the band of the score one hundredth lower), and the
\* composite and the hybrid function give the same band.
C14_RatingsMonotone ==
    pc = "rated" =>
        /\ calc.res.composite = calc.res.hybrid
        /\ calc.inp > 0 =>
              LET below == RatingsOf(calc.inp - 1)
              IN /\ BandRank(below.composite) <= BandRank(calc.res.composite)
                 /\ BandRank(below.hybrid) <= BandRank(calc.res.hybrid)
                 /\ ModelBandRank(below.model) <= ModelBandRank(calc.res.model)

\* C14 witness: a score on a threshold where the band changes.
C14_Witness ==
    /\ pc = "rated"
    /\ calc.inp = 5500
    /\ calc.res.hybrid = "accumulate"
    /\ RatingsOf(calc.inp - 1).hybrid = "hold"

-----------------------------------------------------------------------------
(* Properties of analyze_batch_hybrid (SpecBatch) *)

\* The record a call of analyze_stock that ended as a must leave in the
\* response: an error record unless the call returned a result.
ExpectedRecord(a) ==
    [ticker |-> a.ticker,
     error |-> a.kind # "returned",
     adjusted_score |-> IF a.kind = "returned" THEN a.adjusted_score ELSE None]

\* How many elements of the sequence s equal x.
Occurrences(s, x) == Cardinality({ i \in 1..Len(s) : s[i] = x })

\* C17: a batch of 1 to 10 tickers analyses every ticker in turn whatever
\* happened to the earlier ones, and its response holds exactly one record
\* per input ticker: an error record for a ticker whose analysis raised or
\* returned an error, the successful records first in descending order of
\* adjusted score, the error records after them, and total = success +
\* failed = the number of input tickers.  An empty list and a list of more
\* than 10 tickers are rejected before any analysis runs.
C17_BatchIsolatesFailures ==
    /\ pc = "rejected" =>
          /\ batch.tickers = << >> \/ Len(batch.tickers) > MaxBatch
          /\ batch.analysed = << >>
          /\ batch.response = Unset
    /\ pc \notin {"request", "rejected"} =>
          /\ Len(batch.tickers) \in 1..MaxBatch
          /\ Len(batch.analysed) <= Len(batch.tickers)
          /\ \A i \in 1..Len(batch.analysed) : batch.analysed[i].ticker = batch.tickers[i]
    /\ pc = "responded" =>
          LET r == batch.response
              expected == [i \in 1..Len(batch.analysed) |-> ExpectedRecord(batch.analysed[i])]
          IN /\ Len(batch.analysed) = Len(batch.tickers)
             /\ Len(r.results) = Len(batch.tickers)
             /\ \A i \in 1..Len(r.results) :
                   Occurrences(r.results, r.results[i]) = Occurrences(expected, r.results[i])
             /\ \A i \in 1..Len(r.results) : r.results[i].error <=> i > r.success
             /\ \A i \in 1..r.success, j \in 1..r.success :
                   i < j => r.results[i].adjusted_score >= r.results[j].adjusted_score
             /\ r.total = Len(batch.tickers)
             /\ r.success + r.failed = r.total

\* C17 witness: a batch of three whose first ticker's analysis raised and
\* whose second ticker scored lower than its third answered with the two
\* successes reordered and the error record last.
C17_Witness ==
    /\ pc = "responded"
    /\ Len(batch.tickers) = 3
    /\ batch.analysed[1].kind = "raised"
    /\ batch.analysed[2].kind = "returned"
    /\ batch.analysed[3].kind = "returned"
    /\ batch.analysed[2].adjusted_score < batch.analysed[3].adjusted_score
    /\ batch.response.results[1].ticker = batch.tickers[3]
    /\ batch.response.results[3].error
    /\ batch.response.success = 2
    /\ batch.response.failed = 1

\* An AdjustmentSource call of the current ticker is pending.
AwaitingAdjustmentSource == pc \in {"quality", "sentiment", "anomaly"}

\* C19: while an AdjustmentSource call of one ticker is pending and later
\* tickers of the batch are still to be analysed, the analysis of the next
\* ticker can start: a pending call does not delay the other tickers.
C19_PendingCallDoesNotDelay ==
    (AwaitingAdjustmentSource /\ Len(batch.results) + 1 < Len(batch.tickers))
        => ENABLED StartTicker
====
